---------------------------- MODULE Spec2Model ----------------------------
(***************************************************************************)
(* Higra hierarchy core: canonical binary partition tree (bpt_canonical),  *)
(* quasi-flat zone hierarchy, simplify_tree and tree_2_binary_tree.        *)
(*                                                                         *)
(* Arrays are functions over 0..size-1, as in the source.  A tree is its   *)
(* parent array.  Each algorithm has its own specification (SpecBpt,       *)
(* SpecSimplify, SpecBinary); the variables of the other algorithms stay   *)
(* idle in it.                                                             *)
(***************************************************************************)
EXTENDS Integers, Sequences, FiniteSets

VARIABLES
    graph,          \* bpt_canonical: the input graph [n, edges]
    edge_weights,   \* bpt_canonical: the input weights, one per edge
    bpt,            \* bpt_canonical: its locals (uf, roots, parents, levels, ...)
    bpt_pc,         \* "idle" | "loop" | "returned" | "error" | "qfz_returned"
    qfz,            \* quasi_flat_zone_hierarchy: its result, or NoResult
    tree_in,        \* simplify_tree: the input tree t (parent array)
    criterion,      \* simplify_tree: the set of nodes on which criterion is true
    process_leaves, \* simplify_tree: the flag
    simp,           \* simplify_tree: its result, or NoResult
    simp_pc,        \* "idle" | "call" | "returned" | "ub"
    bin_in,         \* tree_2_binary_tree: the input tree (parent array)
    bin,            \* tree_2_binary_tree: its result, or NoResult
    bin_pc,         \* "idle" | "call" | "returned" | "ub"
    hc_tree,        \* horizontal_cut_explorer: the input tree (parent array)
    hc_altitudes,   \* horizontal_cut_explorer: the input altitudes
    hc,             \* horizontal_cut_explorer: its members and constructor locals
    hc_query,       \* the last query on the explorer and its result, or NoResult
    hc_pc           \* "idle" | "call" | "loop" | "ready" | "error" | "ub"

bptVars == <<graph, edge_weights, bpt, bpt_pc, qfz>>
simpVars == <<tree_in, criterion, process_leaves, simp, simp_pc>>
binVars == <<bin_in, bin, bin_pc>>
hcVars == <<hc_tree, hc_altitudes, hc, hc_query, hc_pc>>
vars == <<bptVars, simpVars, binVars, hcVars>>

(***************************************************************************)
(* Bounds of the model.                                                    *)
(***************************************************************************)
\* largest number of graph vertices
MaxVertices == 3
\* largest number of graph edges
MaxEdges == 3
\* largest edge weight; the weights are -1 .. MaxWeight
MaxWeight == 1
\* largest number of nodes of an input tree of simplify_tree and tree_2_binary_tree
MaxNodes == 6
\* largest number of nodes of an input tree all of whose internal nodes have
\* at least 2 children (SpecSimplifyStrict)
MaxStrictNodes == 8
\* largest altitude of a node given to the explorer; the altitudes are -1 .. MaxAltitude
MaxAltitude == 2
\* largest number of nodes of a tree given to the explorer whose internal
\* nodes all have at least 2 children
MaxCutNodes == 7

NoResult == [none |-> TRUE]

(***************************************************************************)
(* Generic helpers.                                                        *)
(***************************************************************************)
Min(S) == CHOOSE x \in S : \A y \in S : x <= y

RECURSIVE SortedSeq(_)
\* the elements of a finite set of integers, ascending
SortedSeq(S) == IF S = {} THEN <<>>
                ELSE LET m == Min(S) IN <<m>> \o SortedSeq(S \ {m})

RECURSIVE SumOver(_, _)
\* sum of f[x] over x in S
SumOver(f, S) == IF S = {} THEN 0
                 ELSE LET x == CHOOSE y \in S : TRUE
                      IN f[x] + SumOver(f, S \ {x})

\* an array write a(idx) = v; a write outside the array leaves the model's array alone
Wr(a, idx, v) == IF idx \in DOMAIN a THEN [a EXCEPT ![idx] = v] ELSE a

\* arange(n), zeros(n)
Arange(n) == [k \in 0..(n - 1) |-> k]
Fill(n, v) == [k \in 0..(n - 1) |-> v]

(***************************************************************************)
(* The tree container (parent array and derived child lists).              *)
(***************************************************************************)
invalid_index == -1

NumVertices(par) == Cardinality(DOMAIN par)
Root(par) == NumVertices(par) - 1
\* child list of i, ascending (the root is not its own child)
Children(i, par) == SortedSeq({c \in DOMAIN par : c # i /\ par[c] = i})
NumChildren(i, par) == Len(Children(i, par))
\* child(c, i, t), c counted from 0
Child(c, i, par) == Children(i, par)[c + 1]
NumLeaves(par) == Cardinality({i \in DOMAIN par : Children(i, par) = <<>>})
IsLeaf(i, par) == i < NumLeaves(par)

\* A tree as the container holds it: the root is the last node and its own
\* parent, parents follow their children, the leaves come first.
IsTree(par) ==
    LET N == NumVertices(par) IN
    /\ N >= 1
    /\ DOMAIN par = 0..(N - 1)
    /\ par[N - 1] = N - 1
    /\ \A i \in 0..(N - 2) : par[i] \in (i + 1)..(N - 1)
    /\ \A i \in 0..(N - 1) : (Children(i, par) = <<>>) <=> (i < NumLeaves(par))

RECURSIVE ParentPrefixes(_, _)
\* the parent arrays of N nodes cut to their first k entries, parent[i] > i
ParentPrefixes(k, N) ==
    IF k = 0 THEN {<<>>}
    ELSE {Append(s, p) : s \in ParentPrefixes(k - 1, N), p \in k..(N - 1)}

\* every tree of N nodes
TreesOfSize(N) ==
    {par \in {[i \in 0..(N - 1) |-> IF i = N - 1 THEN N - 1 ELSE s[i + 1]] :
                  s \in ParentPrefixes(N - 1, N)} : IsTree(par)}

Trees == UNION {TreesOfSize(N) : N \in 1..MaxNodes}

\* every internal node of the tree has at least 2 children
AtLeastBinary(par) == \A i \in DOMAIN par : NumChildren(i, par) # 1

StrictTrees ==
    UNION {{par \in TreesOfSize(N) : AtLeastBinary(par)} : N \in 1..MaxStrictNodes}


(***************************************************************************)
(* Union-find over the graph vertices: parent pointers; find compresses    *)
(* the path, link(a, b) makes one of the two roots the parent of the other *)
(* and returns it.                                                         *)
(***************************************************************************)
RECURSIVE UfFind(_, _)
UfFind(uf, x) == IF uf[x] = x THEN x ELSE UfFind(uf, uf[x])

RECURSIVE UfPath(_, _)
UfPath(uf, x) == IF uf[x] = x THEN {x} ELSE {x} \cup UfPath(uf, uf[x])

\* the union-find after find(x): every element on x's path points to the root
UfCompress(uf, x) ==
    [y \in DOMAIN uf |-> IF y \in UfPath(uf, x) THEN UfFind(uf, x) ELSE uf[y]]

\* the roots link(a, b) may return: either a or b
UfLinkRoots(a, b) == {a, b}

\* the union-find after link(a, b) returned newRoot
UfLink(uf, a, b, newRoot) ==
    [uf EXCEPT ![IF newRoot = a THEN b ELSE a] = newRoot]

(***************************************************************************)
(* bpt_canonical                                                           *)
(***************************************************************************)
Weights == {-1} \cup (0..MaxWeight)

\* an edge is a pair <<source, target>> of distinct vertices
EdgesOn(n) == {<<u, v>> : u \in 0..(n - 1), v \in 0..(n - 1)} \ {<<u, u>> : u \in 0..(n - 1)}

\* the graphs on which bpt_canonical is run: n vertices, m indexed edges
\* (parallel edges allowed); each edge is listed with source < target
Graphs ==
    UNION {UNION {{[n |-> n, edges |-> es] :
                     es \in [0..(m - 1) -> {e \in EdgesOn(n) : e[1] < e[2]}]} :
                  m \in 0..MaxEdges} : n \in 1..MaxVertices}

NumEdges(g) == Cardinality(DOMAIN g.edges)

\* position of edge index ei in the sorted order : std::stable_sort by weight,
\* ties kept in index order
SortRankDescending(w, ei) ==
    Cardinality({j \in DOMAIN w : w[j] > w[ei] \/ (w[j] = w[ei] /\ j < ei)})

SortRankUnsorted(w, ei) == ei

SortRank(w, ei) ==
    Cardinality({j \in DOMAIN w : w[j] < w[ei] \/ (w[j] = w[ei] /\ j < ei)})

\* sorted_edges_indices
SortedEdgesIndices(w) ==
    [k \in DOMAIN w |-> CHOOSE ei \in DOMAIN w : SortRank(w, ei) = k]

\* the locals of bpt_canonical before the loop
BptLocals(g, w) ==
    [sorted_edges_indices |-> SortedEdgesIndices(w),
     num_edge_mst |-> g.n - 1,
     mst |-> [n |-> g.n, edges |-> <<>>],
     mst_edge_map |-> Fill(g.n - 1, invalid_index),
     uf |-> Arange(g.n),
     roots |-> Arange(g.n),
     parents |-> Arange(g.n * 2 - 1),
     levels |-> Fill(g.n * 2 - 1, 0),
     num_nodes |-> g.n,
     num_edge_found |-> 0,
     i |-> 0]

\* the loop condition
BptLoopGuard(b, g) == b.num_edge_found < b.num_edge_mst /\ b.i < NumEdges(g)

MergeOneChild(b, ei, e, c1, c2, newRoot, w, uf) ==
    [b EXCEPT !.levels = Wr(@, b.num_nodes, w[ei]),
              !.parents = Wr(@, b.roots[c1], b.num_nodes),
              !.uf = UfLink(uf, c1, c2, newRoot),
              !.roots = Wr(@, newRoot, b.num_nodes),
              !.mst = [@ EXCEPT !.edges = Append(@, e)],
              !.mst_edge_map = Wr(@, b.num_edge_found, ei),
              !.num_nodes = @ + 1,
              !.num_edge_found = @ + 1,
              !.i = @ + 1]

\* the body of the loop when the edge joins two components c1 # c2
Merge(b, ei, e, c1, c2, newRoot, w, uf) ==
    [b EXCEPT !.levels = Wr(@, b.num_nodes, w[ei]),
              !.parents = Wr(Wr(@, b.roots[c1], b.num_nodes), b.roots[c2], b.num_nodes),
              !.uf = UfLink(uf, c1, c2, newRoot),
              !.roots = Wr(@, newRoot, b.num_nodes),
              !.mst = [@ EXCEPT !.edges = Append(@, e)],
              !.mst_edge_map = Wr(@, b.num_edge_found, ei),
              !.num_nodes = @ + 1,
              !.num_edge_found = @ + 1,
              !.i = @ + 1]

\* the assertion after the loop
AssertAlways(b) == TRUE

BptAssertion(b) == b.num_edge_found = b.num_edge_mst

BptStart ==
    /\ graph \in Graphs
    /\ edge_weights \in [DOMAIN graph.edges -> Weights]
    /\ bpt = BptLocals(graph, edge_weights)
    /\ bpt_pc = "loop"
    /\ qfz = NoResult

BptIdle ==
    /\ graph = NoResult
    /\ edge_weights = NoResult
    /\ bpt = NoResult
    /\ bpt_pc = "idle"
    /\ qfz = NoResult

\* one iteration of the while loop
BptLoop ==
    /\ bpt_pc = "loop"
    /\ BptLoopGuard(bpt, graph)
    /\ LET ei == bpt.sorted_edges_indices[bpt.i]
           e == graph.edges[ei]
           c1 == UfFind(bpt.uf, e[1])
           uf1 == UfCompress(bpt.uf, e[1])
           c2 == UfFind(uf1, e[2])
           uf2 == UfCompress(uf1, e[2])
       IN IF c1 # c2
          THEN \E newRoot \in UfLinkRoots(c1, c2) :
                   bpt' = Merge(bpt, ei, e, c1, c2, newRoot, edge_weights, uf2)
          ELSE bpt' = [bpt EXCEPT !.uf = uf2, !.i = @ + 1]
    /\ UNCHANGED <<graph, edge_weights, bpt_pc, qfz>>
    /\ UNCHANGED <<simpVars, binVars, hcVars>>

\* the loop is over and the assertion holds: the result record is returned
BptReturn ==
    /\ bpt_pc = "loop"
    /\ ~BptLoopGuard(bpt, graph)
    /\ BptAssertion(bpt)
    /\ bpt_pc' = "returned"
    /\ UNCHANGED <<graph, edge_weights, bpt, qfz>>
    /\ UNCHANGED <<simpVars, binVars, hcVars>>

\* the loop is over and the assertion fails: "Input graph must be connected."
BptThrow ==
    /\ bpt_pc = "loop"
    /\ ~BptLoopGuard(bpt, graph)
    /\ ~BptAssertion(bpt)
    /\ bpt_pc' = "error"
    /\ bpt' = NoResult
    /\ UNCHANGED <<graph, edge_weights, qfz>>
    /\ UNCHANGED <<simpVars, binVars, hcVars>>

(***************************************************************************)
(* simplify_tree.  The result is [tree, node_map] together with what the   *)
(* run did to its output arrays: oob (a write outside them happened) and   *)
(* written (the slots that were assigned).                                 *)
(***************************************************************************)

(* ---- process_leaves = false ---- *)

RECURSIVE ModeADown(_, _, _, _)
\* the root-to-leaves loop (leaves and root excluded): i = N-2 down to L
ModeADown(i, st, t, crit) ==
    IF i < NumLeaves(t) THEN st
    ELSE LET parent == st.copy_parent[i]
             st1 == IF i \in crit
                    THEN [st EXCEPT !.copy_parent =
                                       [c \in DOMAIN @ |->
                                           IF c # i /\ t[c] = i THEN parent ELSE @[c]],
                                    !.count = @ + 1]
                    ELSE st
         IN ModeADown(i - 1, [st1 EXCEPT !.deleted_map = Wr(@, i, st1.count)], t, crit)

ModeAKeepsNoLeafTest(i, t, crit) == i \notin crit

\* whether the leaves-to-root loop emits node i
ModeAKeeps(i, t, crit) == i \notin crit \/ IsLeaf(i, t)

RECURSIVE ModeAUp(_, _, _, _, _, _)
\* the leaves-to-root loop (leaves included, root excluded): i = 0 up to N-2
ModeAUp(i, st, t, crit, copy_parent, deleted_map) ==
    IF i >= Root(t) THEN st
    ELSE IF ModeAKeeps(i, t, crit)
         THEN LET par == copy_parent[i]
                  new_par == par - deleted_map[par]
              IN ModeAUp(i + 1,
                         [st EXCEPT !.node_map = Wr(@, st.count, i),
                                    !.new_parent = Wr(@, st.count, new_par),
                                    !.oob = @ \/ st.count \notin DOMAIN st.node_map,
                                    !.count = @ + 1],
                         t, crit, copy_parent, deleted_map)
         ELSE ModeAUp(i + 1, st, t, crit, copy_parent, deleted_map)

ModeARootSlotForgotten(node_map, t) == node_map

\* node_map(node_map.size() - 1) = root(t)
ModeARootSlot(node_map, t) == Wr(node_map, NumVertices(node_map) - 1, Root(t))

SimplifyModeA(t, crit) ==
    LET n_nodes == NumVertices(t)
        down == ModeADown(n_nodes - 2,
                          [copy_parent |-> t, count |-> 0, deleted_map |-> Fill(n_nodes, 0)],
                          t, crit)
        count == down.count
        deleted_map == [i \in DOMAIN t |-> count - down.deleted_map[i]]
        up == ModeAUp(0,
                      [count |-> 0,
                       new_parent |-> Arange(n_nodes - count),
                       node_map |-> Fill(n_nodes - count, 0),
                       oob |-> FALSE],
                      t, crit, down.copy_parent, deleted_map)
    IN [tree |-> up.new_parent,
        node_map |-> ModeARootSlot(up.node_map, t),
        oob |-> up.oob,
        written |-> DOMAIN up.new_parent]

(* ---- process_leaves = true ---- *)

RECURSIVE RemovedBranch(_, _, _, _)
\* removed_branch of the internal nodes, i = L up to N-1
RemovedBranch(i, rb, t, crit) ==
    IF i > Root(t) THEN rb
    ELSE RemovedBranch(i + 1,
                       [rb EXCEPT ![i] = \A k \in 1..NumChildren(i, t) :
                                             LET cc == Children(i, t)[k]
                                             IN rb[cc] /\ cc \in crit],
                       t, crit)

\* new_leaves, in the order the three loops push them
NewLeaves(t, crit, rb) ==
    SortedSeq({i \in 0..(NumLeaves(t) - 1) : i \notin crit})
    \o SortedSeq({i \in NumLeaves(t)..(Root(t) - 1) : rb[i] /\ ~rb[t[i]]})
    \o (IF rb[Root(t)] THEN <<Root(t)>> ELSE <<>>)

\* removed, as the two loops count it
Removed(t, crit) ==
    Cardinality({i \in 0..(NumLeaves(t) - 1) : i \in crit})
    + Cardinality({i \in NumLeaves(t)..(Root(t) - 1) : i \in crit})

RECURSIVE PushChildren(_, _, _)
\* the children in cs whose new_order is still invalid_index, appended to the queue
PushChildren(queue, cs, new_order) ==
    IF cs = <<>> THEN queue
    ELSE PushChildren(IF new_order[Head(cs)] = invalid_index
                      THEN Append(queue, Head(cs)) ELSE queue,
                      Tail(cs), new_order)

\* whether the traversal gives node e an index of its own
BfsKeeps(e, t, crit) == e \notin crit \/ e = Root(t)

RECURSIVE Bfs(_, _, _)
\* the top-down traversal, until the queue is empty
Bfs(st, t, crit) ==
    IF st.queue = <<>> THEN st
    ELSE LET e == Head(st.queue)
             st1 == IF BfsKeeps(e, t, crit)
                    THEN LET order == Wr(st.new_order, e, st.node_number)
                         IN [st EXCEPT !.new_order = order,
                                       !.new_parent = Wr(@, st.node_number, order[t[e]]),
                                       !.node_map = Wr(@, st.node_number, e),
                                       !.written = @ \cup ({st.node_number} \cap DOMAIN st.node_map),
                                       !.oob = @ \/ st.node_number \notin DOMAIN st.node_map,
                                       !.node_number = @ - 1]
                    ELSE [st EXCEPT !.new_order = Wr(@, e, @[t[e]])]
         IN Bfs([st1 EXCEPT !.queue = PushChildren(Tail(st.queue), Children(e, t),
                                                  st1.new_order)],
                t, crit)

RECURSIVE LeafSlots(_, _, _, _)
\* the last loop: slot i of the outputs is new_leaves[i]
LeafSlots(i, st, new_leaves, t) ==
    IF i >= Len(new_leaves) THEN st
    ELSE LET n == new_leaves[i + 1]
         IN LeafSlots(i + 1,
                      [st EXCEPT !.new_parent = Wr(@, i, st.new_order[t[n]]),
                                 !.node_map = Wr(@, i, n),
                                 !.written = @ \cup ({i} \cap DOMAIN st.node_map),
                                 !.oob = @ \/ i \notin DOMAIN st.node_map],
                      new_leaves, t)

SimplifyModeB(t, crit) ==
    LET N == NumVertices(t)
        removed_branch ==
            RemovedBranch(NumLeaves(t),
                          [i \in DOMAIN t |-> i < NumLeaves(t) /\ i \in crit], t, crit)
        new_leaves == NewLeaves(t, crit, removed_branch)
        num_nodes_new_tree == N - Removed(t, crit)
        new_order == [i \in DOMAIN t |->
                         IF \E k \in 1..Len(new_leaves) : new_leaves[k] = i
                         THEN (CHOOSE k \in 1..Len(new_leaves) : new_leaves[k] = i) - 1
                         ELSE invalid_index]
        bfs == Bfs([queue |-> <<Root(t)>>,
                    new_order |-> new_order,
                    new_parent |-> Fill(num_nodes_new_tree, 0),
                    node_map |-> Fill(num_nodes_new_tree, 0),
                    written |-> {},
                    oob |-> FALSE,
                    node_number |-> num_nodes_new_tree - 1],
                   t, crit)
        fin == LeafSlots(0, bfs, new_leaves, t)
    IN [tree |-> fin.new_parent,
        node_map |-> fin.node_map,
        oob |-> fin.oob,
        written |-> fin.written]

SimplifyTree(t, crit, leaves) ==
    IF leaves THEN SimplifyModeB(t, crit) ELSE SimplifyModeA(t, crit)

\* what the output slots that were never assigned may hold (a sample of the
\* index values: invalid_index, the indices of t, one index past them);
\* nothing to choose when every slot of 0..(size - 1) was assigned
Garbage(t, size, written) ==
    IF 0..(size - 1) \subseteq written THEN {invalid_index}
    ELSE invalid_index..NumVertices(t)

\* the array a of run r with the unassigned slots holding g
Filled(a, r, g) == [k \in DOMAIN a |-> IF k \in r.written THEN a[k] ELSE g]

\* the outputs of run r of simplify_tree, the unassigned slots holding g
SimpOutputs(r, g) == [tree |-> Filled(r.tree, r, g), node_map |-> Filled(r.node_map, r, g)]

SimpStart ==
    /\ tree_in \in Trees
    /\ criterion \in SUBSET (DOMAIN tree_in)
    /\ process_leaves \in BOOLEAN
    /\ simp = NoResult
    /\ simp_pc = "call"

SimpIdle ==
    /\ tree_in = NoResult
    /\ criterion = NoResult
    /\ process_leaves = NoResult
    /\ simp = NoResult
    /\ simp_pc = "idle"

\* simplify_tree(t, criterion, process_leaves) runs and returns
SimplifyReturn ==
    /\ simp_pc = "call"
    /\ LET r == SimplifyTree(tree_in, criterion, process_leaves)
       IN /\ ~r.oob
          /\ \E g \in Garbage(tree_in, NumVertices(r.tree), r.written) : simp' = SimpOutputs(r, g)
    /\ simp_pc' = "returned"
    /\ UNCHANGED <<tree_in, criterion, process_leaves>>
    /\ UNCHANGED <<bptVars, binVars, hcVars>>

\* simplify_tree writes outside new_parent and node_map: undefined behaviour,
\* the run crashes or goes on with the heap overwritten
SimplifyOutOfBounds ==
    /\ simp_pc = "call"
    /\ LET r == SimplifyTree(tree_in, criterion, process_leaves)
       IN /\ r.oob
          /\ \/ simp' = NoResult
             \/ \E g \in Garbage(tree_in, NumVertices(r.tree), r.written) : simp' = SimpOutputs(r, g)
    /\ simp_pc' = "ub"
    /\ UNCHANGED <<tree_in, criterion, process_leaves>>
    /\ UNCHANGED <<bptVars, binVars, hcVars>>

(***************************************************************************)
(* quasi_flat_zone_hierarchy: bpt_canonical, then simplify_tree on the     *)
(* nodes whose altitude equals their parent's.                             *)
(***************************************************************************)
QfzCriterionNone(altitudes, altitude_parents) == {}

\* xt::equal(altitudes, altitude_parents)
QfzCriterion(altitudes, altitude_parents) ==
    {i \in DOMAIN altitudes : altitudes[i] = altitude_parents[i]}

\* the rest of quasi_flat_zone_hierarchy once bpt_canonical has returned
QfzReturn ==
    /\ bpt_pc = "returned"
    /\ LET tree == bpt.parents
           altitudes == bpt.levels
           altitude_parents == [i \in DOMAIN tree |-> altitudes[tree[i]]]
           r == SimplifyTree(tree, QfzCriterion(altitudes, altitude_parents), FALSE)
       IN qfz' = [tree |-> r.tree,
                  node_map |-> r.node_map,
                  altitudes |-> [j \in DOMAIN r.node_map |-> altitudes[r.node_map[j]]]]
    /\ bpt_pc' = "qfz_returned"
    /\ UNCHANGED <<graph, edge_weights, bpt>>
    /\ UNCHANGED <<simpVars, binVars, hcVars>>

(***************************************************************************)
(* tree_2_binary_tree.  The result is [tree, reverse_node_map] together    *)
(* with ub (a child that does not exist was read, or a write fell outside  *)
(* the arrays) and written (the slots of the outputs that were assigned).  *)
(***************************************************************************)
ChainLinkNoProvenance(st, cur, i) ==
    [st EXCEPT !.new_parents = Wr(@, cur, cur + 1),
               !.written = @ \cup ({cur} \cap DOMAIN st.new_parents),
               !.ub = @ \/ cur \notin DOMAIN st.new_parents]

\* new_parents(cur_par_index) = cur_par_index + 1; reverse_node_map(cur_par_index) = i
ChainLink(st, cur, i) ==
    [st EXCEPT !.new_parents = Wr(@, cur, cur + 1),
               !.reverse_node_map = Wr(@, cur, i),
               !.written = @ \cup ({cur} \cap DOMAIN st.new_parents),
               !.rwritten = @ \cup ({cur} \cap DOMAIN st.new_parents),
               !.ub = @ \/ cur \notin DOMAIN st.new_parents]

RECURSIVE ChainChildren(_, _, _, _)
\* the inner loop: children c = 2 .. num_c - 1 of node i
ChainChildren(c, i, st, tree) ==
    IF c >= NumChildren(i, tree) THEN st
    ELSE LET cur == st.cur_par_index
             st1 == ChainLink(st, cur, i)
             slot == st.node_map[Child(c, i, tree)]
         IN ChainChildren(c + 1, i,
                          [st1 EXCEPT !.new_parents = Wr(@, slot, cur + 1),
                                      !.written = @ \cup ({slot} \cap DOMAIN st.new_parents),
                                      !.ub = @ \/ slot \notin DOMAIN st.new_parents,
                                      !.cur_par_index = cur + 1],
                          tree)

RECURSIVE BinarizeLoop(_, _, _)
\* the leaves-to-root loop (leaves excluded): i = num_l up to the root
BinarizeLoop(i, st, tree) ==
    IF i > Root(tree) \/ st.ub THEN st
    ELSE IF NumChildren(i, tree) < 2
         THEN [st EXCEPT !.ub = TRUE]
         ELSE LET cur == st.cur_par_index
                  s0 == st.node_map[Child(0, i, tree)]
                  s1 == st.node_map[Child(1, i, tree)]
                  st1 == [st EXCEPT !.new_parents = Wr(Wr(@, s0, cur), s1, cur),
                                    !.written = @ \cup ({s0, s1} \cap DOMAIN st.new_parents),
                                    !.ub = @ \/ {s0, s1} \cap DOMAIN st.new_parents # {s0, s1}]
                  st2 == ChainChildren(2, i, st1, tree)
                  last == st2.cur_par_index
              IN BinarizeLoop(i + 1,
                              [st2 EXCEPT !.node_map = Wr(@, i, last),
                                          !.reverse_node_map = Wr(@, last, i),
                                          !.rwritten = @ \cup ({last} \cap DOMAIN st.new_parents),
                                          !.ub = @ \/ last \notin DOMAIN st.new_parents,
                                          !.cur_par_index = last + 1],
                              tree)

Tree2BinaryTree(tree) ==
    LET num_v == NumVertices(tree)
        num_l == NumLeaves(tree)
        num_v_res == num_l * 2 - 1
        loop == BinarizeLoop(num_l,
                             [node_map |-> [i \in 0..(num_v - 1) |-> IF i < num_l THEN i ELSE 0],
                              reverse_node_map |->
                                  [i \in 0..(num_v_res - 1) |-> IF i < num_l THEN i ELSE 0],
                              new_parents |-> Fill(num_v_res, 0),
                              written |-> {},
                              rwritten |-> 0..(num_l - 1),
                              ub |-> FALSE,
                              cur_par_index |-> num_l],
                             tree)
    IN [tree |-> Wr(loop.new_parents, num_v_res - 1, num_v_res - 1),
        reverse_node_map |-> loop.reverse_node_map,
        ub |-> loop.ub,
        written |-> loop.written \cup {num_v_res - 1},
        rwritten |-> loop.rwritten]

BinStart ==
    /\ bin_in \in Trees
    /\ bin = NoResult
    /\ bin_pc = "call"

BinIdle ==
    /\ bin_in = NoResult
    /\ bin = NoResult
    /\ bin_pc = "idle"

\* the outputs of run r, the slots never assigned holding g
BinOutputs(r, g) ==
    [tree |-> [k \in DOMAIN r.tree |->
                  IF k \in r.written THEN r.tree[k] ELSE g],
     reverse_node_map |-> [k \in DOMAIN r.tree |->
                  IF k \in r.rwritten THEN r.reverse_node_map[k] ELSE g]]

\* tree_2_binary_tree(tree) runs and returns
BinarizeReturn ==
    /\ bin_pc = "call"
    /\ LET r == Tree2BinaryTree(bin_in)
       IN /\ ~r.ub
          /\ \E g \in Garbage(bin_in, NumVertices(r.tree), r.written \cap r.rwritten) : bin' = BinOutputs(r, g)
    /\ bin_pc' = "returned"
    /\ UNCHANGED bin_in
    /\ UNCHANGED <<bptVars, simpVars, hcVars>>

\* tree_2_binary_tree reads child(1, i, tree) of a node with fewer than 2
\* children, or writes outside its arrays: undefined behaviour, the run
\* crashes or goes on with whatever it read
BinarizeUndefined ==
    /\ bin_pc = "call"
    /\ LET r == Tree2BinaryTree(bin_in)
       IN /\ r.ub
          /\ \/ bin' = NoResult
             \/ \E g \in Garbage(bin_in, NumVertices(r.tree), r.written \cap r.rwritten) : bin' = BinOutputs(r, g)
    /\ bin_pc' = "ub"
    /\ UNCHANGED bin_in
    /\ UNCHANGED <<bptVars, simpVars, hcVars>>

(***************************************************************************)
(* horizontal_cut_explorer (horizontal_cuts.hpp).                          *)
(*                                                                         *)
(* The cut lists are sequences: cut index k is element k + 1.              *)
(***************************************************************************)
\* the input trees of the explorer
CutTrees == Trees \cup {t \in StrictTrees : NumVertices(t) <= MaxCutNodes}

\* the input altitudes of the explorer on tree t: any value on the internal
\* nodes and on leaf 0; the altitudes of the internal nodes never decrease
\* towards the root, as sort_hierarchy_with_altitudes requires of its input
CutAltitudes(t) ==
    LET inner == {i \in DOMAIN t : ~IsLeaf(i, t)}
    IN {[i \in DOMAIN t |-> IF i \in inner THEN a[i] ELSE IF i = 0 THEN l ELSE 0] :
            a \in {b \in [inner -> (-1)..MaxAltitude] :
                       \A i \in inner : b[t[i]] >= b[i]},
            l \in {0, 1}}

\* the two hg_assert of the constructor: the leaves have altitude 0 and no
\* node has a negative altitude
CutAssertions(t, altitudes) ==
    /\ \A i \in 0..(NumLeaves(t) - 1) : altitudes[i] = 0
    /\ \A i \in NumLeaves(t)..(NumVertices(t) - 1) : altitudes[i] >= 0

\* the place of internal node i in the stable sort by altitude
SortedPlace(t, altitudes, i) ==
    NumLeaves(t) +
    Cardinality({j \in DOMAIN t : /\ ~IsLeaf(j, t)
                                  /\ \/ altitudes[j] < altitudes[i]
                                     \/ altitudes[j] = altitudes[i] /\ j < i})

\* sort_hierarchy_with_altitudes: the leaves stay, the internal nodes are
\* sorted by increasing altitude (stable); node_map[k] is the node put at k
SortHierarchyWithAltitudes(t, altitudes) ==
    LET sorted == [k \in DOMAIN t |->
                      IF IsLeaf(k, t) THEN k
                      ELSE CHOOSE i \in DOMAIN t :
                               ~IsLeaf(i, t) /\ SortedPlace(t, altitudes, i) = k]
        reverse_sorted == [i \in DOMAIN t |-> CHOOSE k \in DOMAIN t : sorted[k] = i]
    IN [tree |-> [k \in DOMAIN t |-> reverse_sorted[t[sorted[k]]]],
        node_map |-> sorted]

\* accumulate_parallel(tree, altitudes, accumulator_min()): the least
\* altitude of the children of each node (0 on the leaves)
AccumulateMin(t, altitudes) ==
    [i \in DOMAIN t |->
        IF NumChildren(i, t) = 0 THEN 0
        ELSE Min({altitudes[Children(i, t)[k]] : k \in 1..NumChildren(i, t)})]

\* the members and the locals of the constructor before its loop
CutLocals(t, altitudes) ==
    LET res == SortHierarchyWithAltitudes(t, altitudes)
        m_altitudes == [k \in DOMAIN t |-> altitudes[res.node_map[k]]]
        r == Root(res.tree)
    IN [m_tree |-> res.tree,
        m_node_map |-> res.node_map,
        m_altitudes |-> m_altitudes,
        min_alt_children |-> AccumulateMin(res.tree, m_altitudes),
        m_num_regions_cuts |-> <<1>>,
        m_altitudes_cuts |-> <<m_altitudes[r]>>,
        m_range_nodes_cuts |-> <<<<invalid_index, invalid_index>>>>,
        range_start |-> r,
        range_end |-> r,
        num_regions |-> NumChildren(r, res.tree),
        current_threshold |-> m_altitudes[r]]

\* while (current_threshold != 0 && range_start >= num_leaves(m_tree))
CutLoopGuard(h) ==
    h.current_threshold # 0 /\ h.range_start >= NumLeaves(h.m_tree)

RECURSIVE RangeEndDown(_, _)
\* while (min_alt_children(range_end) >= current_threshold) range_end--
RangeEndDown(h, range_end) ==
    IF h.min_alt_children[range_end] >= h.current_threshold
    THEN RangeEndDown(h, range_end - 1)
    ELSE range_end

RECURSIVE RangeStartDownNoCount(_)
RangeStartDownNoCount(h) ==
    IF h.m_altitudes[h.range_start - 1] >= h.current_threshold
    THEN RangeStartDownNoCount([h EXCEPT !.range_start = @ - 1])
    ELSE h

RECURSIVE RangeStartDown(_)
\* while (m_altitudes(range_start - 1) >= current_threshold)
\*     { range_start--; num_regions += num_children(range_start, m_tree) - 1; }
RangeStartDown(h) ==
    IF h.m_altitudes[h.range_start - 1] >= h.current_threshold
    THEN RangeStartDown([h EXCEPT !.range_start = @ - 1,
                                  !.num_regions =
                                      @ + NumChildren(h.range_start - 1, h.m_tree) - 1])
    ELSE h

\* the three push_back that end an iteration
PushCutFirstRange(h) ==
    [h EXCEPT !.m_num_regions_cuts = Append(@, h.num_regions),
              !.m_altitudes_cuts = Append(@, h.current_threshold),
              !.m_range_nodes_cuts = Append(@, <<h.range_start, h.range_start>>)]

PushCut(h) ==
    [h EXCEPT !.m_num_regions_cuts = Append(@, h.num_regions),
              !.m_altitudes_cuts = Append(@, h.current_threshold),
              !.m_range_nodes_cuts = Append(@, <<h.range_start, h.range_end>>)]

\* one iteration of the constructor's loop
CutIteration(h) ==
    LET h1 == [h EXCEPT !.range_end = RangeEndDown(h, h.range_end)]
        h2 == RangeStartDown(h1)
        h3 == [h2 EXCEPT !.current_threshold = h2.m_altitudes[h2.range_start - 1]]
    IN PushCut(h3)

num_cuts(h) == Len(h.m_num_regions_cuts)

\* the list seen through rbegin()/rend(): place j (from 0) is element j + 1
Reversed(s) == [j \in 1..Len(s) |-> s[Len(s) + 1 - j]]

RECURSIVE UpperBoundNotStrict(_, _, _, _)
UpperBoundNotStrict(s, value, first, count) ==
    IF count <= 0 THEN first
    ELSE LET step == count \div 2
             it == first + step
         IN IF s[it + 1] < value
            THEN UpperBoundNotStrict(s, value, it + 1, count - (step + 1))
            ELSE UpperBoundNotStrict(s, value, first, step)

RECURSIVE UpperBound(_, _, _, _)
\* std::upper_bound(first, first + count, value): the binary search of the
\* library, places counted from 0
UpperBound(s, value, first, count) ==
    IF count <= 0 THEN first
    ELSE LET step == count \div 2
             it == first + step
         IN IF ~(value < s[it + 1])
            THEN UpperBound(s, value, it + 1, count - (step + 1))
            ELSE UpperBound(s, value, first, step)

LowerBoundEnd(s, value, first, count) == first + count

RECURSIVE LowerBound(_, _, _, _)
\* std::lower_bound(first, first + count, value)
LowerBound(s, value, first, count) ==
    IF count <= 0 THEN first
    ELSE LET step == count \div 2
             it == first + step
         IN IF s[it + 1] < value
            THEN LowerBound(s, value, it + 1, count - (step + 1))
            ELSE LowerBound(s, value, first, step)

\* cut_index of horizontal_cut_from_altitude(threshold)
CutIndexFromAltitude(h, threshold) ==
    LET size == Len(h.m_altitudes_cuts)
        pos == UpperBound(Reversed(h.m_altitudes_cuts), threshold, 0, size)
    IN IF pos = 0 THEN size - 1 ELSE size - pos

\* cut_index of horizontal_cut_from_num_regions(num_regions)
CutIndexFromNumRegions(h, num_regions) ==
    LET size == Len(h.m_num_regions_cuts)
        pos == LowerBound(h.m_num_regions_cuts, num_regions, 0, size)
    IN IF pos = size THEN size - 1 ELSE pos

\* if (m_altitudes(c) <= altitude)
InCut(h, c, altitude) == h.m_altitudes[c] <= altitude

\* nodes(j++) = m_node_map(c) for the children c of node i that are in the cut
RECURSIVE ChildrenInCut(_, _, _, _)
ChildrenInCut(h, i, c, altitude) ==
    IF c >= NumChildren(i, h.m_tree) THEN <<>>
    ELSE LET n == Child(c, i, h.m_tree)
         IN (IF InCut(h, n, altitude) THEN <<h.m_node_map[n]>> ELSE <<>>)
                \o ChildrenInCut(h, i, c + 1, altitude)

RECURSIVE RangeInCut(_, _, _, _)
\* for (i = range.first; i <= range.second; i++)
RangeInCut(h, i, last, altitude) ==
    IF i > last THEN <<>>
    ELSE ChildrenInCut(h, i, 0, altitude) \o RangeInCut(h, i + 1, last, altitude)

\* horizontal_cut_from_index(cut_index) for a stored cut: the size of the
\* array nodes, the values assigned to nodes(0), nodes(1), ... in order, and
\* the altitude of the cut
HorizontalCutFromIndex(h, cut_index) ==
    LET range == h.m_range_nodes_cuts[cut_index + 1]
        altitude == h.m_altitudes_cuts[cut_index + 1]
    IN [num_regions |-> h.m_num_regions_cuts[cut_index + 1],
        assigned |-> IF cut_index = 0 THEN <<Root(h.m_tree)>>
                     ELSE RangeInCut(h, range[1], range[2], altitude),
        altitude |-> altitude]

\* the cut returned: the slots of nodes never assigned hold g
CutNodes(c, g) ==
    [nodes |-> [j \in 0..(c.num_regions - 1) |->
                   IF j < Len(c.assigned) THEN c.assigned[j + 1] ELSE g],
     altitude |-> c.altitude]

\* how horizontal_cut_from_index(cut_index) ends for a stored cut: a write
\* past the end of nodes is undefined behaviour, a slot never assigned holds
\* any value
CutOutcomes(h, cut_index) ==
    LET c == HorizontalCutFromIndex(h, cut_index)
    IN IF Len(c.assigned) > c.num_regions
       THEN {[pc |-> "ub", result |-> r] : r \in {NoResult, CutNodes(c, invalid_index)}}
       ELSE IF Len(c.assigned) = c.num_regions
       THEN {[pc |-> "ready", result |-> CutNodes(c, invalid_index)]}
       ELSE {[pc |-> "ready", result |-> CutNodes(c, g)] :
                 g \in invalid_index..NumVertices(h.m_tree)}

\* m_num_regions_cuts[i], m_altitudes_cuts[i] with i outside the list: a read
\* outside the vector, undefined behaviour; the call crashes or returns what
\* it read
OutOfRangeRead ==
    {[pc |-> "ub", result |-> r] :
        r \in {NoResult} \cup {[value |-> v] : v \in invalid_index..1}}

\* horizontal_cut_from_index with cut_index outside the lists: every list is
\* read outside its elements
OutOfRangeCut ==
    {[pc |-> "ub", result |-> r] :
        r \in {NoResult} \cup {[nodes |-> Fill(n, g), altitude |-> g] :
                                  n \in 0..1, g \in invalid_index..1}}

StoredCut(h, i) == i \in 0..(num_cuts(h) - 1)

HcStart ==
    /\ hc_tree \in CutTrees
    /\ hc_altitudes \in CutAltitudes(hc_tree)
    /\ hc = NoResult
    /\ hc_query = NoResult
    /\ hc_pc = "call"

HcIdle ==
    /\ hc_tree = NoResult
    /\ hc_altitudes = NoResult
    /\ hc = NoResult
    /\ hc_query = NoResult
    /\ hc_pc = "idle"

\* the constructor: an hg_assert on the altitudes fails
ExplorerThrow ==
    /\ hc_pc = "call"
    /\ ~CutAssertions(hc_tree, hc_altitudes)
    /\ hc_pc' = "error"
    /\ UNCHANGED <<hc_tree, hc_altitudes, hc, hc_query>>
    /\ UNCHANGED <<bptVars, simpVars, binVars>>

\* the constructor up to its loop: sort, min_alt_children, the first cut
ExplorerSeed ==
    /\ hc_pc = "call"
    /\ CutAssertions(hc_tree, hc_altitudes)
    /\ hc' = CutLocals(hc_tree, hc_altitudes)
    /\ hc_pc' = "loop"
    /\ UNCHANGED <<hc_tree, hc_altitudes, hc_query>>
    /\ UNCHANGED <<bptVars, simpVars, binVars>>

\* one iteration of the constructor's loop
ExplorerLoop ==
    /\ hc_pc = "loop"
    /\ CutLoopGuard(hc)
    /\ hc' = CutIteration(hc)
    /\ UNCHANGED <<hc_tree, hc_altitudes, hc_query, hc_pc>>
    /\ UNCHANGED <<bptVars, simpVars, binVars>>

\* the loop ends: the explorer is built
ExplorerBuilt ==
    /\ hc_pc = "loop"
    /\ ~CutLoopGuard(hc)
    /\ hc_pc' = "ready"
    /\ UNCHANGED <<hc_tree, hc_altitudes, hc, hc_query>>
    /\ UNCHANGED <<bptVars, simpVars, binVars>>

\* a query op(arg) on the built explorer ends as outcome o
Query(op, arg, cut_index, o) ==
    /\ hc_query' = [op |-> op, arg |-> arg, cut_index |-> cut_index, result |-> o.result]
    /\ hc_pc' = o.pc
    /\ UNCHANGED <<hc_tree, hc_altitudes, hc>>
    /\ UNCHANGED <<bptVars, simpVars, binVars>>

\* num_regions_cut(i)
NumRegionsCut ==
    /\ hc_pc = "ready"
    /\ \E i \in (-1)..num_cuts(hc) :
          \E o \in (IF StoredCut(hc, i)
                    THEN {[pc |-> "ready", result |-> [value |-> hc.m_num_regions_cuts[i + 1]]]}
                    ELSE OutOfRangeRead) :
              Query("num_regions_cut", i, i, o)

\* altitude_cut(i)
AltitudeCut ==
    /\ hc_pc = "ready"
    /\ \E i \in (-1)..num_cuts(hc) :
          \E o \in (IF StoredCut(hc, i)
                    THEN {[pc |-> "ready", result |-> [value |-> hc.m_altitudes_cuts[i + 1]]]}
                    ELSE OutOfRangeRead) :
              Query("altitude_cut", i, i, o)

\* horizontal_cut_from_index(cut_index)
HorizontalCutFromIndexCall ==
    /\ hc_pc = "ready"
    /\ \E cut_index \in (-1)..num_cuts(hc) :
          \E o \in (IF StoredCut(hc, cut_index)
                    THEN CutOutcomes(hc, cut_index)
                    ELSE OutOfRangeCut) :
              Query("horizontal_cut_from_index", cut_index, cut_index, o)

\* horizontal_cut_from_altitude(threshold)
HorizontalCutFromAltitude ==
    /\ hc_pc = "ready"
    /\ \E threshold \in (-1)..(MaxAltitude + 1) :
          LET cut_index == CutIndexFromAltitude(hc, threshold)
          IN \E o \in CutOutcomes(hc, cut_index) :
                 Query("horizontal_cut_from_altitude", threshold, cut_index, o)

\* horizontal_cut_from_num_regions(num_regions)
HorizontalCutFromNumRegions ==
    /\ hc_pc = "ready"
    /\ \E num_regions \in 0..(NumVertices(hc_tree) + 1) :
          LET cut_index == CutIndexFromNumRegions(hc, num_regions)
          IN \E o \in CutOutcomes(hc, cut_index) :
                 Query("horizontal_cut_from_num_regions", num_regions, cut_index, o)

(***************************************************************************)
(* Specifications.                                                         *)
(***************************************************************************)
InitBpt == BptStart /\ SimpIdle /\ BinIdle /\ HcIdle
NextBpt == BptLoop \/ BptReturn \/ BptThrow \/ QfzReturn
SpecBpt == InitBpt /\ [][NextBpt]_vars

InitSimplify == BptIdle /\ SimpStart /\ BinIdle /\ HcIdle
NextSimplify == SimplifyReturn \/ SimplifyOutOfBounds
SpecSimplify == InitSimplify /\ [][NextSimplify]_vars

InitSimplifyStrict ==
    /\ BptIdle /\ BinIdle /\ HcIdle
    /\ tree_in \in StrictTrees
    /\ criterion \in SUBSET (DOMAIN tree_in)
    /\ process_leaves \in BOOLEAN
    /\ simp = NoResult
    /\ simp_pc = "call"
SpecSimplifyStrict == InitSimplifyStrict /\ [][NextSimplify]_vars

InitBinary == BptIdle /\ SimpIdle /\ BinStart /\ HcIdle
NextBinary == BinarizeReturn \/ BinarizeUndefined
SpecBinary == InitBinary /\ [][NextBinary]_vars

InitExplorer == BptIdle /\ SimpIdle /\ BinIdle /\ HcStart
NextExplorer ==
    \/ ExplorerThrow \/ ExplorerSeed \/ ExplorerLoop \/ ExplorerBuilt
    \/ NumRegionsCut \/ AltitudeCut \/ HorizontalCutFromIndexCall
    \/ HorizontalCutFromAltitude \/ HorizontalCutFromNumRegions
SpecExplorer == InitExplorer /\ [][NextExplorer]_vars

(***************************************************************************)
(* Properties.  Helpers first.                                             *)
(***************************************************************************)
Max(S) == CHOOSE x \in S : \A y \in S : y <= x

RECURSIVE Reach(_, _, _)
\* the vertices of 0..n-1 joined to a vertex of S by edges of E
Reach(S, n, E) ==
    LET S2 == S \cup {v \in 0..(n - 1) :
                         \E e \in E : \/ (e[1] \in S /\ e[2] = v)
                                      \/ (e[2] \in S /\ e[1] = v)}
    IN IF S2 = S THEN S ELSE Reach(S2, n, E)

ConnectedBy(n, E) == Reach({0}, n, E) = 0..(n - 1)

EdgeSet(g, S) == {g.edges[k] : k \in S}

GraphConnected(g) == ConnectedBy(g.n, EdgeSet(g, DOMAIN g.edges))

\* the sets of n-1 edge indices that span the graph
SpanningTrees(g) ==
    {S \in SUBSET (DOMAIN g.edges) :
        Cardinality(S) = g.n - 1 /\ ConnectedBy(g.n, EdgeSet(g, S))}

MinSpanningWeight(g, w) == Min({SumOver(w, S) : S \in SpanningTrees(g)})

BptReturned == bpt_pc \in {"returned", "qfz_returned"}

\* a parent array is a tree: the last node is the only root, parents come later
ValidParents(np) ==
    LET M == NumVertices(np) IN
    /\ M >= 1
    /\ DOMAIN np = 0..(M - 1)
    /\ \A i \in DOMAIN np : (np[i] = i) <=> (i = M - 1)
    /\ \A i \in 0..(M - 2) : np[i] > i /\ np[i] \in 0..(M - 1)

Injective(f) == \A a, b \in DOMAIN f : f[a] = f[b] => a = b

Image(f) == {f[a] : a \in DOMAIN f}

\* the nodes of t that simplify_tree is to keep
Survivors(t, crit, leaves) ==
    {i \in DOMAIN t : i = Root(t) \/ i \notin crit \/ (~leaves /\ IsLeaf(i, t))}

RECURSIVE NearestIn(_, _, _)
\* the nearest proper ancestor of i in t that is in S (the root if none is)
NearestIn(i, t, S) ==
    IF t[i] \in S \/ t[i] = i THEN t[i] ELSE NearestIn(t[i], t, S)

ChildSet(i, t) == {Children(i, t)[k] : k \in 1..NumChildren(i, t)}

RECURSIVE LeavesUnder(_, _)
LeavesUnder(i, t) ==
    IF NumChildren(i, t) = 0 THEN {i}
    ELSE UNION {LeavesUnder(c, t) : c \in ChildSet(i, t)}

\* the nodes of the binarized tree that reverse_node_map sends to node n
Copies(n) == {j \in DOMAIN bin.reverse_node_map : bin.reverse_node_map[j] = n}

\* the image of node n in the binarized tree: the last of its copies
ImageOf(n) == Max(Copies(n))

(***************************************************************************)
(* C1: for every connected graph and every weight array bpt_canonical      *)
(* returns, and its tree has 2n-1 nodes, the leaves are exactly 0..n-1,     *)
(* every node >= n has exactly 2 children, node 2n-2 is the only node that  *)
(* is its own parent, and every other node i has parent[i] > i.             *)
(***************************************************************************)
C1_BptTreeShape ==
    /\ GraphConnected(graph) => bpt_pc # "error"
    /\ BptReturned =>
          LET p == bpt.parents
              n == graph.n
          IN /\ DOMAIN p = 0..(2 * n - 2)
             /\ \A i \in DOMAIN p : (NumChildren(i, p) = 0) <=> (i < n)
             /\ \A i \in DOMAIN p : i >= n => NumChildren(i, p) = 2
             /\ \A i \in DOMAIN p : (p[i] = i) <=> (i = 2 * n - 2)
             /\ \A i \in DOMAIN p : i # 2 * n - 2 => (p[i] > i /\ p[i] \in DOMAIN p)

\* a triangle was processed: two merges and one skipped cycle edge
C1_Witness ==
    /\ bpt_pc = "returned"
    /\ graph.n = 3
    /\ bpt.i = 3
    /\ bpt.num_edge_found = 2

(***************************************************************************)
(* C2, as claimed: in every bpt_canonical result the leaves have altitude  *)
(* 0 and altitudes[parent[i]] >= altitudes[i] for every node i.            *)
(***************************************************************************)
C2_AltitudesMonotoneAllNodes ==
    BptReturned =>
        LET p == bpt.parents
            a == bpt.levels
        IN /\ \A i \in 0..(graph.n - 1) : a[i] = 0
           /\ \A i \in DOMAIN p : a[p[i]] >= a[i]

(***************************************************************************)
(* C2, amended: the leaves have altitude 0; altitudes[parent[i]] >=        *)
(* altitudes[i] for every internal node i >= n, and for every leaf too     *)
(* when no edge weight is negative.                                        *)
(***************************************************************************)
C2_AltitudesMonotone ==
    BptReturned =>
        LET p == bpt.parents
            a == bpt.levels
            n == graph.n
        IN /\ \A i \in 0..(n - 1) : a[i] = 0
           /\ \A i \in DOMAIN p : i >= n => a[p[i]] >= a[i]
           /\ (\A k \in DOMAIN edge_weights : edge_weights[k] >= 0)
                 => \A i \in DOMAIN p : a[p[i]] >= a[i]

\* non-negative weights, and two internal nodes of different altitudes
C2_Witness ==
    /\ bpt_pc = "returned"
    /\ graph.n = 3
    /\ \A k \in DOMAIN edge_weights : edge_weights[k] >= 0
    /\ bpt.levels[4] > bpt.levels[3]

(***************************************************************************)
(* C3: the returned mst has n vertices and n-1 edges, edge k being edge    *)
(* mst_edge_map[k] of the graph; these edges span the graph, and the sum   *)
(* of their weights is the least weight of a spanning tree of the graph.   *)
(***************************************************************************)
C3_MinimumSpanningTree ==
    BptReturned =>
        LET n == graph.n
            m == bpt.mst
            map == bpt.mst_edge_map
        IN /\ m.n = n
           /\ Len(m.edges) = n - 1
           /\ DOMAIN map = 0..(n - 2)
           /\ \A k \in DOMAIN map : /\ map[k] \in DOMAIN graph.edges
                                    /\ m.edges[k + 1] = graph.edges[map[k]]
           /\ Injective(map)
           /\ Image(map) \in SpanningTrees(graph)
           /\ SumOver(edge_weights, Image(map)) = MinSpanningWeight(graph, edge_weights)

\* a graph with a spanning tree heavier than the one returned
C3_Witness ==
    /\ bpt_pc = "returned"
    /\ graph.n = 3
    /\ \E S \in SpanningTrees(graph) :
           SumOver(edge_weights, S) > SumOver(edge_weights, Image(bpt.mst_edge_map))

(***************************************************************************)
(* C4: on a graph that is not connected no tree is ever returned, neither  *)
(* by bpt_canonical nor by quasi_flat_zone_hierarchy: when the loop is     *)
(* over the assertion fails, and the run ends in the error with no result. *)
(***************************************************************************)
C4_DisconnectedFails ==
    ~GraphConnected(graph) =>
        /\ bpt_pc \in {"loop", "error"}
        /\ qfz = NoResult
        /\ (bpt_pc = "loop" /\ ~BptLoopGuard(bpt, graph)) => ~BptAssertion(bpt)
        /\ bpt_pc = "error" => bpt = NoResult

\* the error, after all the edges of a graph of 3 vertices were scanned
C4_Witness ==
    /\ bpt_pc = "error"
    /\ graph.n = 3
    /\ NumEdges(graph) >= 2

(***************************************************************************)
(* C5: in every quasi_flat_zone_hierarchy result no internal node other    *)
(* than the root has the altitude of its parent; the graph vertices are    *)
(* the leaves 0..n-1, and the altitudes are the BPT altitudes read through *)
(* node_map.                                                               *)
(***************************************************************************)
C5_QfzNoFlatStep ==
    bpt_pc = "qfz_returned" =>
        LET p == qfz.tree
            a == qfz.altitudes
            n == graph.n
        IN /\ ValidParents(p)
           /\ \A i \in DOMAIN p : (i >= n /\ i # Root(p)) => a[i] # a[p[i]]
           /\ \A i \in DOMAIN p : (NumChildren(i, p) = 0) <=> (i < n)
           /\ \A i \in 0..(n - 1) : qfz.node_map[i] = i
           /\ DOMAIN a = DOMAIN p
           /\ \A j \in DOMAIN p : a[j] = bpt.levels[qfz.node_map[j]]

\* a BPT node was collapsed into its parent of equal altitude
C5_Witness ==
    /\ bpt_pc = "qfz_returned"
    /\ graph.n = 3
    /\ bpt.levels[3] = bpt.levels[4]
    /\ NumVertices(qfz.tree) = 4

(***************************************************************************)
(* C6, as claimed, on the trees with more than one node whose internal     *)
(* nodes all have at least 2 children: in both modes simplify_tree writes  *)
(* only inside its output arrays and returns a tree: the last node is the  *)
(* only one that is its own parent and new_parent[i] > i, in range, for    *)
(* every other node.                                                       *)
(***************************************************************************)
C6_SimplifyValidTree ==
    (simp_pc # "call" /\ NumVertices(tree_in) > 1 /\ AtLeastBinary(tree_in)) =>
        /\ simp_pc = "returned"
        /\ ValidParents(simp.tree)

(***************************************************************************)
(* C7, as claimed, on the trees with more than one node whose internal     *)
(* nodes all have at least 2 children: in both modes node_map is injective *)
(* and its image is the set of surviving nodes (the root, the nodes on     *)
(* which p is false and, with process_leaves = false, the leaves), and     *)
(* node_map[new_parent[j]] is the nearest surviving proper ancestor of     *)
(* node_map[j] for every output node j but the root.                       *)
(***************************************************************************)
C7_NodeMapSurvivors ==
    (simp_pc = "returned" /\ NumVertices(tree_in) > 1 /\ AtLeastBinary(tree_in)) =>
        LET S == Survivors(tree_in, criterion, process_leaves) IN
        /\ Injective(simp.node_map)
        /\ Image(simp.node_map) = S
        /\ \A j \in DOMAIN simp.tree :
               j # Root(simp.tree) =>
                   simp.node_map[simp.tree[j]] = NearestIn(simp.node_map[j], tree_in, S)

(***************************************************************************)
(* C8, as claimed: with the predicate false on every node simplify_tree    *)
(* returns, in both modes, the parent array of T and the identity node_map.*)
(***************************************************************************)
C8_NothingRemovedIdentity ==
    (simp_pc # "call" /\ criterion = {}) =>
        /\ simp_pc = "returned"
        /\ simp.tree = tree_in
        /\ simp.node_map = Arange(NumVertices(tree_in))

(***************************************************************************)
(* C8, amended: with the predicate false on every node, simplify_tree with *)
(* process_leaves = false returns the parent array of T and the identity   *)
(* node_map; with process_leaves = true it returns a tree isomorphic to T  *)
(* through node_map: node_map is one-to-one onto the nodes of T, it is the *)
(* identity on the leaves and maps root to root, and                       *)
(* node_map[new_parent[j]] = parent[node_map[j]] for every node j (the     *)
(* internal nodes may be renumbered).                                      *)
(***************************************************************************)
C8_NothingRemovedIsomorphic ==
    (simp_pc # "call" /\ criterion = {}) =>
        /\ simp_pc = "returned"
        /\ ~process_leaves =>
              /\ simp.tree = tree_in
              /\ simp.node_map = Arange(NumVertices(tree_in))
        /\ process_leaves =>
              /\ ValidParents(simp.tree)
              /\ DOMAIN simp.node_map = DOMAIN tree_in
              /\ Injective(simp.node_map)
              /\ Image(simp.node_map) = DOMAIN tree_in
              /\ \A i \in 0..(NumLeaves(tree_in) - 1) : simp.node_map[i] = i
              /\ simp.node_map[Root(simp.tree)] = Root(tree_in)
              /\ \A j \in DOMAIN simp.tree :
                     simp.node_map[simp.tree[j]] = tree_in[simp.node_map[j]]

\* nothing removed with process_leaves = true, and the internal nodes renumbered
C8_Witness ==
    /\ simp_pc = "returned"
    /\ criterion = {}
    /\ process_leaves = TRUE
    /\ simp.tree # tree_in

(***************************************************************************)
(* C9: with process_leaves = false no leaf is removed whatever p is on it: *)
(* the output has the leaves of T, node_map[i] = i for every leaf i, and   *)
(* node_map is strictly increasing.                                        *)
(***************************************************************************)
C9_ModeAKeepsLeaves ==
    (simp_pc # "call" /\ process_leaves = FALSE) =>
        /\ simp_pc = "returned"
        /\ NumLeaves(simp.tree) = NumLeaves(tree_in)
        /\ \A i \in DOMAIN simp.tree :
               (NumChildren(i, simp.tree) = 0) <=> (i < NumLeaves(tree_in))
        /\ \A i \in 0..(NumLeaves(tree_in) - 1) : simp.node_map[i] = i
        /\ \A a, b \in DOMAIN simp.node_map : a < b => simp.node_map[a] < simp.node_map[b]

\* p true on a leaf and on an internal node, the internal node removed
C9_Witness ==
    /\ simp_pc = "returned"
    /\ process_leaves = FALSE
    /\ 0 \in criterion
    /\ \E i \in criterion : i >= NumLeaves(tree_in) /\ i # Root(tree_in)
    /\ NumVertices(simp.tree) < NumVertices(tree_in)

(***************************************************************************)
(* C10: on a tree with L leaves whose internal nodes all have at least 2   *)
(* children tree_2_binary_tree returns a tree of 2L-1 nodes whose internal *)
(* nodes have exactly 2 children; reverse_node_map is the identity on the  *)
(* leaves and maps exactly k-1 nodes m_1 < ... < m_(k-1) to a node n of k  *)
(* children c_0..c_(k-1), the last being n's image; m_1 = (c_0, c_1),      *)
(* m_j = (m_(j-1), c_j) (children read through their images), and the      *)
(* leaves under n's image are the leaves under n.                          *)
(***************************************************************************)
C10_BinaryChain ==
    (bin_pc # "call" /\ AtLeastBinary(bin_in)) =>
        /\ bin_pc = "returned"
        /\ LET L == NumLeaves(bin_in)
               b == bin.tree
           IN /\ ValidParents(b)
              /\ NumVertices(b) = 2 * L - 1
              /\ DOMAIN bin.reverse_node_map = DOMAIN b
              /\ \A j \in DOMAIN b : NumChildren(j, b) = IF j < L THEN 0 ELSE 2
              /\ \A i \in 0..(L - 1) : bin.reverse_node_map[i] = i
              /\ \A n \in DOMAIN bin_in :
                     n >= L =>
                         LET k == NumChildren(n, bin_in)
                             m == SortedSeq(Copies(n))
                         IN /\ Len(m) = k - 1
                            /\ ChildSet(m[1], b) = {ImageOf(Child(0, n, bin_in)),
                                                    ImageOf(Child(1, n, bin_in))}
                            /\ \A j \in 2..(k - 1) :
                                   ChildSet(m[j], b) = {m[j - 1], ImageOf(Child(j, n, bin_in))}
                            /\ LeavesUnder(ImageOf(n), b) = LeavesUnder(n, bin_in)

\* a node of 3 or more children below the root was chained
C10_Witness ==
    /\ bin_pc = "returned"
    /\ \E n \in DOMAIN bin_in : n # Root(bin_in) /\ NumChildren(n, bin_in) >= 3
    /\ NumVertices(bin.tree) > NumVertices(bin_in)

(***************************************************************************)
(* C11: when the input tree has a non-leaf node with fewer than 2          *)
(* children, tree_2_binary_tree fails with an InvalidTree error: it ends   *)
(* in an error and returns no tree.  The source has no such test: the loop *)
(* reads child(1, i, tree) of a node that has one child.                   *)
(***************************************************************************)
C11_SingleChildRejected ==
    (bin_pc # "call" /\ ~AtLeastBinary(bin_in)) =>
        (bin_pc = "error" /\ bin = NoResult)

\* the explorer is built
ExplorerReady == hc_pc \in {"ready", "ub"} /\ hc # NoResult

\* s[1] > s[2] > ... (Decreasing) and s[1] < s[2] < ... (Growing)
StrictlyDecreasing(s) == \A j \in 1..(Len(s) - 1) : s[j] > s[j + 1]
StrictlyIncreasing(s) == \A j \in 1..(Len(s) - 1) : s[j] < s[j + 1]

\* the last query was op and ended with a result
Answered(op) ==
    /\ hc_query # NoResult
    /\ hc_query.op = op
    /\ hc_query.result # NoResult

RECURSIVE AncestorsOrSelf(_, _)
AncestorsOrSelf(n, t) ==
    IF t[n] = n THEN {n} ELSE {n} \cup AncestorsOrSelf(t[n], t)

\* the nodes of the horizontal cut of hc_tree at altitude a
CutAt(a) ==
    {n \in DOMAIN hc_tree :
        hc_altitudes[n] <= a /\ hc_altitudes[hc_tree[n]] > a}

(***************************************************************************)
(* C12: on a tree whose internal nodes have at least 2 children, with      *)
(* altitudes 0 on the leaves, non-negative and non-decreasing towards the  *)
(* root, the construction of the explorer ends (the loop adds at most one  *)
(* cut per internal node), num_regions_cuts is strictly increasing,        *)
(* altitude_cuts is strictly decreasing, and the first cut is the single   *)
(* region at the altitude of the root.                                     *)
(***************************************************************************)
C12_CutsMonotone ==
    (hc_pc \in {"loop", "ready"} /\ AtLeastBinary(hc_tree)) =>
        /\ num_cuts(hc) <= NumVertices(hc_tree) - NumLeaves(hc_tree) + 1
        /\ StrictlyIncreasing(hc.m_num_regions_cuts)
        /\ StrictlyDecreasing(hc.m_altitudes_cuts)
        /\ hc.m_num_regions_cuts[1] = 1
        /\ hc.m_altitudes_cuts[1] = hc_altitudes[Root(hc_tree)]
        /\ Len(hc.m_altitudes_cuts) = Len(hc.m_num_regions_cuts)

C12_Witness ==
    /\ hc_pc = "ready"
    /\ AtLeastBinary(hc_tree)
    /\ num_cuts(hc) = 3
    /\ \E i \in DOMAIN hc_tree : i # Root(hc_tree) /\ hc_altitudes[i] = hc_altitudes[hc_tree[i]]
                                  /\ hc_altitudes[i] > 0

\* the binary partition tree of the graph with edges (0,1,1), (1,2,1), (2,3,2)
ScenarioTree == [i \in 0..6 |-> <<4, 4, 5, 6, 5, 6, 6>>[i + 1]]
ScenarioAltitudes == [i \in 0..6 |-> <<0, 0, 0, 0, 1, 1, 2>>[i + 1]]

(***************************************************************************)
(* C13: on the tree with parents [4,4,5,6,5,6,6] and altitudes             *)
(* [0,0,0,0,1,1,2] the explorer has num_regions_cuts = [1,3,4] and         *)
(* altitude_cuts = [2,1,0], and horizontal_cut_from_num_regions(2) returns *)
(* the cut of altitude 1, which has 3 regions.                             *)
(***************************************************************************)
C13_ScenarioCuts ==
    (ExplorerReady /\ hc_tree = ScenarioTree /\ hc_altitudes = ScenarioAltitudes) =>
        /\ hc.m_num_regions_cuts = <<1, 3, 4>>
        /\ hc.m_altitudes_cuts = <<2, 1, 0>>
        /\ (hc_query # NoResult /\ hc_query.op = "horizontal_cut_from_num_regions"
                /\ hc_query.arg = 2) =>
               /\ hc_pc = "ready"
               /\ hc_query.result.altitude = 1
               /\ DOMAIN hc_query.result.nodes = 0..2
               /\ Image(hc_query.result.nodes) = {2, 3, 4}

(***************************************************************************)
(* C13, as the source behaves: on that tree the explorer has               *)
(* num_regions_cuts = [1,2,4] and altitude_cuts = [2,1,0], and             *)
(* horizontal_cut_from_num_regions(2) returns the cut of altitude 1, which *)
(* has the 2 regions of nodes 3 and 5.                                     *)
(***************************************************************************)
C13_ScenarioCutsTwoRegions ==
    (ExplorerReady /\ hc_tree = ScenarioTree /\ hc_altitudes = ScenarioAltitudes) =>
        /\ hc.m_num_regions_cuts = <<1, 2, 4>>
        /\ hc.m_altitudes_cuts = <<2, 1, 0>>
        /\ (hc_query # NoResult /\ hc_query.op = "horizontal_cut_from_num_regions"
                /\ hc_query.arg = 2) =>
               /\ hc_pc = "ready"
               /\ hc_query.cut_index = 1
               /\ hc_query.result.altitude = 1
               /\ DOMAIN hc_query.result.nodes = 0..1
               /\ Image(hc_query.result.nodes) = {3, 5}

C13_Witness ==
    /\ hc_pc = "ready"
    /\ hc_tree = ScenarioTree
    /\ hc_altitudes = ScenarioAltitudes
    /\ Answered("horizontal_cut_from_num_regions")
    /\ hc_query.arg = 2

\* the cut indices whose altitude is at most threshold
CutsBelow(threshold) ==
    {k \in 0..(num_cuts(hc) - 1) : hc.m_altitudes_cuts[k + 1] <= threshold}

(***************************************************************************)
(* C14: when some cut has an altitude <= threshold,                        *)
(* horizontal_cut_from_altitude(threshold) returns the cut of the smallest *)
(* index k with altitude_cut(k) <= threshold: its altitude is <= threshold *)
(* and no cut of altitude <= threshold has fewer regions.                  *)
(***************************************************************************)
C14_FromAltitudeSmallestIndex ==
    (hc_query # NoResult /\ hc_query.op = "horizontal_cut_from_altitude"
         /\ CutsBelow(hc_query.arg) # {}) =>
        /\ hc_pc = "ready"
        /\ hc_query.cut_index = Min(CutsBelow(hc_query.arg))
        /\ hc_query.result.altitude = hc.m_altitudes_cuts[hc_query.cut_index + 1]
        /\ hc_query.result.altitude <= hc_query.arg
        /\ \A k \in CutsBelow(hc_query.arg) :
               Cardinality(DOMAIN hc_query.result.nodes) <= hc.m_num_regions_cuts[k + 1]

C14_Witness ==
    /\ Answered("horizontal_cut_from_altitude")
    /\ hc_query.cut_index = 1
    /\ hc.m_altitudes_cuts[1] > hc_query.arg
    /\ hc_query.result.altitude < hc_query.arg

(***************************************************************************)
(* C15: horizontal_cut_from_index(k), num_regions_cut(k) and               *)
(* altitude_cut(k) with k outside [0, num_cuts) fail with a                *)
(* QueryOutOfRange error and read nothing outside the stored lists.  The   *)
(* source indexes the lists with k unchecked.                              *)
(***************************************************************************)
C15_OutOfRangeFails ==
    (/\ hc_query # NoResult
     /\ hc_query.op \in {"horizontal_cut_from_index", "num_regions_cut", "altitude_cut"}
     /\ ~StoredCut(hc, hc_query.arg)) =>
        /\ hc_pc = "error"
        /\ hc_query.result = [error |-> "QueryOutOfRange"]

(***************************************************************************)
(* C16: on a tree whose internal nodes have at least 2 children, with      *)
(* altitudes 0 on the leaves and non-decreasing towards the root,          *)
(* horizontal_cut_from_index(k) for a stored cut k assigns exactly         *)
(* num_regions_cut(k) slots of nodes, the nodes returned are exactly the   *)
(* nodes of altitude <= altitude_cut(k) whose parent has an altitude       *)
(* > altitude_cut(k) (the root alone for k = 0), and every leaf has        *)
(* exactly one returned node among its ancestors and itself.               *)
(***************************************************************************)
C16_CutIsPartition ==
    (/\ hc_query # NoResult
     /\ hc_query.op = "horizontal_cut_from_index"
     /\ StoredCut(hc, hc_query.arg)
     /\ AtLeastBinary(hc_tree)) =>
        LET k == hc_query.arg
            nodes == hc_query.result.nodes
        IN /\ hc_pc = "ready"
           /\ Len(HorizontalCutFromIndex(hc, k).assigned) = hc.m_num_regions_cuts[k + 1]
           /\ DOMAIN nodes = 0..(hc.m_num_regions_cuts[k + 1] - 1)
           /\ Injective(nodes)
           /\ Image(nodes) = IF k = 0 THEN {Root(hc_tree)}
                             ELSE CutAt(hc.m_altitudes_cuts[k + 1])
           /\ \A l \in 0..(NumLeaves(hc_tree) - 1) :
                  Cardinality(AncestorsOrSelf(l, hc_tree) \cap Image(nodes)) = 1

C16_Witness ==
    /\ Answered("horizontal_cut_from_index")
    /\ AtLeastBinary(hc_tree)
    /\ hc_query.arg = 1
    /\ num_cuts(hc) >= 3
    /\ \E j \in DOMAIN hc_query.result.nodes : ~IsLeaf(hc_query.result.nodes[j], hc_tree)
    /\ \E j \in DOMAIN hc_query.result.nodes : IsLeaf(hc_query.result.nodes[j], hc_tree)

=============================================================================
